---- MODULE Spec2Model ----
(***************************************************************************)
(* The plan-execute loop of autonomous_paint_agent.py: module startup,     *)
(* main() up to the interaction loop, the line-by-line dispatch of one     *)
(* planner response, and the process exit of the __main__ block.           *)
(*                                                                         *)
(* A planner response is a sequence of stripped lines.  A line is a record *)
(*   prefix : what the line starts with ("" for a blank line)              *)
(*   valid  : whether the text after the first ":" is a JSON document      *)
(*   keys   : the keys of that JSON object                                 *)
(*   name, args : the values under "name" and "args"                       *)
(***************************************************************************)
EXTENDS Integers, Sequences, FiniteSets, TLC

VARIABLES
    pc,                  \* position of the process
    iteration,           \* global iteration (line 45)
    iteration_response,  \* global iteration_response (line 46): the history
    lines,               \* lines of the response of the current round (line 312)
    idx,                 \* index of the line the for loop of line 313 is at
    function_info_json,  \* local of main(), bound by line 329
    invoked,             \* session.call_tool calls made in the current round
    planner_calls,       \* number of generate_with_timeout calls made
    outcome,             \* how main() ended
    exc,                 \* what propagated out of main()
    exit_code,           \* process exit status, NoExit while running
    query,               \* local query of main() (lines 296 and 370)
    session,             \* the stdio_client / ClientSession contexts (172-174)
    releases,            \* number of times the session was released
    delayed,             \* asyncio.sleep(2) ran since the last call_tool
    \* paint_tools.py, the tool server
    HAS_WINDOWS_MODULES,   \* lines 68-83
    HAS_GMAIL_CREDENTIALS, \* lines 51-57
    paint_app,             \* PaintTools.paint_app
    last_rect,             \* PaintTools.last_rect, NoRect while not set
    files,                 \* the paths that name an existing file
    last_call,             \* the tool call served last and what it did
    open_succeeded         \* some open_paint call has returned success

agentVars == <<pc, iteration, iteration_response, lines, idx,
               function_info_json, invoked, planner_calls, outcome, exc,
               exit_code, query, session, releases, delayed>>

toolVars == <<HAS_WINDOWS_MODULES, HAS_GMAIL_CREDENTIALS, paint_app,
              last_rect, files, last_call, open_succeeded>>

vars == <<agentVars, toolVars>>

----------------------------------------------------------------------------
\* Bounds of the model
MaxLines == 2        \* lines per planner response
MaxHistory == 2      \* history records plus FUNCTION_CALL lines still to come

\* Program constants
max_iterations == 10

NoExit == 0 - 1

\* Names registered by the tool server (the @mcp.tool() functions)
tool_names ==
    {"open_paint", "draw_rectangle", "add_text_in_paint", "save_paint_file",
     "ascii_exp_sum", "send_email_with_attachment", "check_file_exists"}

----------------------------------------------------------------------------
\* Planner output

NoJson == [valid |-> FALSE, keys |-> {}, name |-> "", args |-> ""]

BlankLine == [prefix |-> ""] @@ NoJson
NarrativeLine == [prefix |-> "REASONING:"] @@ NoJson
FinalAnswerLine == [prefix |-> "FINAL_ANSWER:"] @@ NoJson
BadJsonLine == [prefix |-> "FUNCTION_CALL:"] @@ NoJson
MissingArgsLine ==
    [prefix |-> "FUNCTION_CALL:", valid |-> TRUE, keys |-> {"name"},
     name |-> "draw_rectangle", args |-> ""]

CallLine(n, a) ==
    [prefix |-> "FUNCTION_CALL:", valid |-> TRUE, keys |-> {"name", "args"},
     name |-> n, args |-> a]

PlannerLines ==
    {BlankLine, NarrativeLine, FinalAnswerLine, BadJsonLine, MissingArgsLine,
     CallLine("draw_rectangle", "600,354,1000,454"),
     CallLine("erase_canvas", "")}

SeqsUpTo(S, n) == UNION {[1..k -> S] : k \in 1..n}

\* response.text.strip().split('\n') with each line stripped: at least one
\* line, and the first and last line are blank only when the text is empty.
Responses ==
    {r \in SeqsUpTo(PlannerLines, MaxLines) :
        Len(r) > 1 => (r[1] # BlankLine /\ r[Len(r)] # BlankLine)}

StartsWith(line, p) == line.prefix = p

RECURSIVE CountLines(_, _)
CountLines(r, p) ==
    IF r = <<>> THEN 0
    ELSE (IF StartsWith(Head(r), p) THEN 1 ELSE 0) + CountLines(Tail(r), p)

----------------------------------------------------------------------------
\* Tool server vocabulary (paint_tools.py)

NoRect == [x1 |-> 0, y1 |-> 0, x2 |-> 0, y2 |-> 0, set |-> FALSE]

\* a tool's result text: whether it starts with "SIMULATION:", and which of
\* the tool's messages it is
Result(simulated, msg) == [simulated |-> simulated, msg |-> msg]

NoCall ==
    [tool |-> "", rect |-> NoRect, text |-> "", filename |-> "",
     attachment_path |-> "", input_string |-> <<>>, file_path |-> "",
     result |-> Result(FALSE, ""), value |-> <<>>, gui |-> FALSE,
     sent |-> FALSE]

----------------------------------------------------------------------------
Unbound == [bound |-> FALSE, keys |-> {}, name |-> "", args |-> ""]

\* The query part of a planner request: the task sentence (user_input and
\* recipient_email) when it holds one, and the history records it lists.
NoQuery == [task |-> <<>>, records |-> <<>>, narrative |-> <<>>]

\* line 296: the initial query names the input string and the recipient
InitialQuery ==
    [task |-> <<"user_input", "recipient_email">>, records |-> <<>>,
     narrative |-> <<>>]

\* variant: the response text of the round is fed back along with the records
BuildQuery_WithResponse(history, response) ==
    [task |-> <<>>, records |-> history,
     narrative |-> SelectSeq(response, LAMBDA l : l.prefix = "REASONING:")]

\* lines 370-373: "Previous steps and results:" followed by the joined
\* iteration_response and "What should be the next step?"
BuildQuery(history, response) ==
    [task |-> <<>>, records |-> history, narrative |-> <<>>]

\* line 304: prompt = system_prompt + "Query: " + query; system_prompt
\* (198-278) is the tool catalogue and the fixed instructions
Prompt == [system_prompt |-> "system_prompt", query |-> query]

\* variant: the contexts of lines 172-174 are left without being closed
AsyncWithExit_Leak(s) == s

\* lines 172-174: leaving the two async with blocks closes the session and
\* the connection, on return, on break and on an exception alike
AsyncWithExit(s) == IF s = "open" THEN "closed" ELSE s

Released(s) == IF s = "open" /\ AsyncWithExit(s) = "closed" THEN 1 ELSE 0

AgentInit ==
    /\ pc = "module"
    /\ iteration = 0
    /\ iteration_response = <<>>
    /\ lines = <<>>
    /\ idx = 0
    /\ function_info_json = Unbound
    /\ invoked = <<>>
    /\ planner_calls = 0
    /\ outcome = "running"
    /\ exc = "none"
    /\ exit_code = NoExit
    /\ query = NoQuery
    /\ session = "none"
    /\ releases = 0
    /\ delayed = TRUE

\* The agent on its own: the tool server is what call_tool talks to, its
\* answers are the returns and failures of ToolReturns and ToolFails.
Init ==
    /\ AgentInit
    /\ HAS_WINDOWS_MODULES = FALSE
    /\ HAS_GMAIL_CREDENTIALS = FALSE
    /\ paint_app = "None"
    /\ last_rect = NoRect
    /\ files = {}
    /\ last_call = NoCall
    /\ open_succeeded = FALSE

----------------------------------------------------------------------------
\* Startup

\* lines 35-39: without GEMINI_API_KEY the module calls sys.exit(1) on import
ModuleStartup ==
    /\ pc = "module"
    /\ \E has_key \in BOOLEAN :
          IF has_key
          THEN /\ pc' = "find_script"
               /\ UNCHANGED <<outcome, exc>>
          ELSE /\ pc' = "main_done"
               /\ outcome' = "no_api_key"
               /\ exc' = "SystemExit"
    /\ UNCHANGED <<iteration, iteration_response, lines, idx,
                   function_info_json, invoked, planner_calls, exit_code>>
    /\ UNCHANGED <<query, session, releases, delayed>>
    /\ UNCHANGED toolVars

\* lines 146-154: sys.exit(1) when paint_tools.py is at none of the paths.
\* SystemExit is no Exception: lines 387 and 391 let it through.
FindScript ==
    /\ pc = "find_script"
    /\ \E found \in BOOLEAN :
          IF found
          THEN /\ pc' = "connect"
               /\ UNCHANGED <<outcome, exc>>
          ELSE /\ pc' = "main_done"
               /\ outcome' = "no_script"
               /\ exc' = "SystemExit"
    /\ UNCHANGED <<iteration, iteration_response, lines, idx,
                   function_info_json, invoked, planner_calls, exit_code>>
    /\ UNCHANGED <<query, session, releases, delayed>>
    /\ UNCHANGED toolVars

\* lines 167-296 and 387-390: stdio_client and ClientSession are entered,
\* then initialize, list_tools and the two input() calls.  The server may not
\* start (nothing was opened), or a later step may raise, which leaves the
\* async with blocks; either exception is caught at line 387 and main()
\* returns.
Connect ==
    /\ pc = "connect"
    /\ \E step \in {"connected", "spawn_failed", "initialize_failed"} :
          \/ /\ step = "connected"
             /\ pc' = "loop"
             /\ session' = "open"
             /\ query' = InitialQuery
             /\ UNCHANGED <<outcome, releases>>
          \/ /\ step = "spawn_failed"
             /\ pc' = "main_done"
             /\ outcome' = "connection_error"
             /\ UNCHANGED <<session, releases, query>>
          \/ /\ step = "initialize_failed"
             /\ pc' = "main_done"
             /\ outcome' = "connection_error"
             /\ session' = AsyncWithExit("open")
             /\ releases' = releases + Released("open")
             /\ UNCHANGED query
    /\ UNCHANGED <<iteration, iteration_response, lines, idx,
                   function_info_json, invoked, planner_calls, exc, exit_code,
                   delayed>>
    /\ UNCHANGED toolVars

----------------------------------------------------------------------------
\* The interaction loop

\* off-by-one variant of the loop test
LoopCondition_OffByOne(i) == i <= max_iterations

\* line 299: while iteration < max_iterations
LoopCondition(i) == i < max_iterations

LoopTest ==
    /\ pc = "loop"
    /\ pc' = IF LoopCondition(iteration) THEN "planning" ELSE "after_loop"
    /\ UNCHANGED <<iteration, iteration_response, lines, idx,
                   function_info_json, invoked, planner_calls, outcome, exc,
                   exit_code>>
    /\ UNCHANGED <<query, session, releases, delayed>>
    /\ UNCHANGED toolVars

\* variant: the handler of line 377 goes on with the loop instead of break
PlannerFails_Continue ==
    /\ pc = "planning"
    /\ planner_calls' = planner_calls + 1
    /\ outcome' = "planner_error"
    /\ pc' = "loop"
    /\ UNCHANGED <<iteration, iteration_response, lines, idx,
                   function_info_json, invoked, exc, exit_code>>
    /\ UNCHANGED <<query, session, releases, delayed>>
    /\ UNCHANGED toolVars

\* lines 304-312 with generate_with_timeout (48-71): the planner call times
\* out or raises (re-raised at 68/71, caught at 377), or yields a response.
\* The planner emits FUNCTION_CALL lines only while the history has room for
\* their records (MaxHistory).
PlannerFails ==
    /\ pc = "planning"
    /\ planner_calls' = planner_calls + 1
    /\ outcome' = "planner_error"
    /\ pc' = "after_loop"
    /\ UNCHANGED <<iteration, iteration_response, lines, idx,
                   function_info_json, invoked, exc, exit_code>>
    /\ UNCHANGED <<query, session, releases, delayed>>
    /\ UNCHANGED toolVars

PlannerResponds ==
    /\ pc = "planning"
    /\ planner_calls' = planner_calls + 1
    /\ \E r \in Responses :
          /\ Len(iteration_response) + CountLines(r, "FUNCTION_CALL:")
                <= MaxHistory
          /\ lines' = r
    /\ idx' = 1
    /\ invoked' = <<>>
    /\ pc' = "lines"
    /\ UNCHANGED <<iteration, iteration_response, function_info_json,
                   outcome, exc, exit_code>>
    /\ UNCHANGED <<query, session, releases, delayed>>
    /\ UNCHANGED toolVars

\* variant: a skipped line is fed back into the history
SkipLine_FedBack ==
    /\ pc = "lines"
    /\ idx <= Len(lines)
    /\ \/ lines[idx].prefix = ""
       \/ /\ ~StartsWith(lines[idx], "FUNCTION_CALL:")
          /\ ~StartsWith(lines[idx], "FINAL_ANSWER:")
    /\ idx' = idx + 1
    /\ iteration_response' = Append(iteration_response,
          [iteration |-> iteration + 1, func_name |-> lines[idx].prefix,
           status |-> "returned"])
    /\ UNCHANGED <<pc, iteration, lines, function_info_json, invoked,
                   planner_calls, outcome, exc, exit_code>>
    /\ UNCHANGED <<query, session, releases, delayed>>
    /\ UNCHANGED toolVars

\* lines 314-320: blank lines and lines with neither prefix are skipped
SkipLine ==
    /\ pc = "lines"
    /\ idx <= Len(lines)
    /\ \/ lines[idx].prefix = ""
       \/ /\ ~StartsWith(lines[idx], "FUNCTION_CALL:")
          /\ ~StartsWith(lines[idx], "FINAL_ANSWER:")
    /\ idx' = idx + 1
    /\ UNCHANGED <<pc, iteration, iteration_response, lines,
                   function_info_json, invoked, planner_calls, outcome, exc,
                   exit_code>>
    /\ UNCHANGED <<query, session, releases, delayed>>
    /\ UNCHANGED toolVars

\* lines 328-332: json.loads binds function_info_json; on JSONDecodeError the
\* error is printed and the variable keeps what it held
JsonLoads(line, old) ==
    IF line.valid
    THEN [bound |-> TRUE, keys |-> line.keys, name |-> line.name,
          args |-> line.args]
    ELSE old

\* line 333: function_info_json['name'], function_info_json['args'] raises
\* UnboundLocalError when nothing was bound, KeyError when a key is absent
LookupRaises(info) ==
    \/ ~info.bound
    \/ "name" \notin info.keys
    \/ "args" \notin info.keys

\* line 338
Registered(func_name) == func_name \in tool_names

\* lines 322-342: one FUNCTION_CALL line up to the call of the tool
FunctionCallLine ==
    /\ pc = "lines"
    /\ idx <= Len(lines)
    /\ StartsWith(lines[idx], "FUNCTION_CALL:")
    /\ LET info == JsonLoads(lines[idx], function_info_json) IN
          /\ function_info_json' = info
          /\ IF LookupRaises(info)
             THEN /\ pc' = "after_loop"
                  /\ outcome' = "round_error"
                  /\ UNCHANGED <<idx, invoked>>
             ELSE IF Registered(info.name)
             THEN /\ pc' = "calling"
                  /\ invoked' = Append(invoked,
                        [line |-> idx, name |-> info.name, args |-> info.args])
                  /\ UNCHANGED <<idx, outcome>>
             ELSE /\ idx' = idx + 1
                  /\ UNCHANGED <<pc, invoked, outcome>>
    /\ UNCHANGED <<iteration, iteration_response, lines, planner_calls, exc,
                   exit_code>>
    /\ delayed' = IF pc' = "calling" THEN FALSE ELSE delayed
    /\ UNCHANGED <<query, session, releases>>
    /\ UNCHANGED toolVars

Record(status) ==
    [iteration |-> iteration + 1, func_name |-> function_info_json.name,
     status |-> status]

\* variant: the new record is put in front of the history
ToolReturns_Prepend ==
    /\ pc = "calling"
    /\ iteration_response' = <<Record("returned")>> \o iteration_response
    /\ pc' = "sleep"
    /\ UNCHANGED <<iteration, lines, idx, function_info_json, invoked,
                   planner_calls, outcome, exc, exit_code>>
    /\ UNCHANGED <<query, session, releases, delayed>>
    /\ UNCHANGED toolVars

\* lines 342-355: the tool returns and its result text is appended
ToolReturns ==
    /\ pc = "calling"
    /\ iteration_response' = Append(iteration_response, Record("returned"))
    /\ pc' = "sleep"
    /\ UNCHANGED <<iteration, lines, idx, function_info_json, invoked,
                   planner_calls, outcome, exc, exit_code>>
    /\ UNCHANGED <<query, session, releases, delayed>>
    /\ UNCHANGED toolVars

\* variant: no inner handler, the exception reaches line 377
ToolFails_Propagates ==
    /\ pc = "calling"
    /\ pc' = "after_loop"
    /\ outcome' = "round_error"
    /\ UNCHANGED <<iteration, iteration_response, lines, idx,
                   function_info_json, invoked, planner_calls, exc, exit_code>>
    /\ UNCHANGED <<query, session, releases, delayed>>
    /\ UNCHANGED toolVars

\* lines 360-362: call_tool or the reading of its result raises
ToolFails ==
    /\ pc = "calling"
    /\ iteration_response' = Append(iteration_response, Record("failed"))
    /\ pc' = "lines"
    /\ idx' = idx + 1
    /\ UNCHANGED <<iteration, lines, function_info_json, invoked,
                   planner_calls, outcome, exc, exit_code>>
    /\ UNCHANGED <<query, session, releases, delayed>>
    /\ UNCHANGED toolVars

\* line 358: await asyncio.sleep(2)
Sleep ==
    /\ pc = "sleep"
    /\ pc' = "lines"
    /\ idx' = idx + 1
    /\ UNCHANGED <<iteration, iteration_response, lines, function_info_json,
                   invoked, planner_calls, outcome, exc, exit_code>>
    /\ delayed' = TRUE
    /\ UNCHANGED <<query, session, releases>>
    /\ UNCHANGED toolVars

\* variant: the FINAL_ANSWER line is printed and the for loop goes on
FinalAnswer_NoReturn ==
    /\ pc = "lines"
    /\ idx <= Len(lines)
    /\ ~StartsWith(lines[idx], "FUNCTION_CALL:")
    /\ StartsWith(lines[idx], "FINAL_ANSWER:")
    /\ idx' = idx + 1
    /\ UNCHANGED <<pc, iteration, iteration_response, lines,
                   function_info_json, invoked, planner_calls, outcome, exc,
                   exit_code, query, session, releases, delayed>>
    /\ UNCHANGED toolVars

\* lines 364-367: return from main()
FinalAnswer ==
    /\ pc = "lines"
    /\ idx <= Len(lines)
    /\ ~StartsWith(lines[idx], "FUNCTION_CALL:")
    /\ StartsWith(lines[idx], "FINAL_ANSWER:")
    /\ outcome' = "final_answer"
    /\ pc' = "main_done"
    /\ UNCHANGED <<iteration, iteration_response, lines, idx,
                   function_info_json, invoked, planner_calls, exc, exit_code>>
    /\ session' = AsyncWithExit(session)
    /\ releases' = releases + Released(session)
    /\ UNCHANGED <<query, delayed>>
    /\ UNCHANGED toolVars

\* lines 369-381: the for loop is over; query is rebuilt, iteration += 1.
\* The lines of the round are dead from here on (line 312 rebinds them).
EndRound ==
    /\ pc = "lines"
    /\ idx > Len(lines)
    /\ iteration' = iteration + 1
    /\ pc' = "loop"
    /\ lines' = <<>>
    /\ idx' = 0
    /\ invoked' = <<>>
    /\ UNCHANGED <<iteration_response, function_info_json, planner_calls,
                   outcome, exc, exit_code>>
    /\ query' = BuildQuery(iteration_response, lines)
    /\ UNCHANGED <<session, releases, delayed>>
    /\ UNCHANGED toolVars

\* lines 383-398: after the while loop
AfterLoop ==
    /\ pc = "after_loop"
    /\ outcome' = IF iteration >= max_iterations
                  THEN "max_iterations" ELSE outcome
    /\ pc' = "main_done"
    /\ UNCHANGED <<iteration, iteration_response, lines, idx,
                   function_info_json, invoked, planner_calls, exc, exit_code>>
    /\ session' = AsyncWithExit(session)
    /\ releases' = releases + Released(session)
    /\ UNCHANGED <<query, delayed>>
    /\ UNCHANGED toolVars

\* lines 400-408 (and 39): sys.exit(1) leaves with status 1; a return of
\* main() and a KeyboardInterrupt (caught at 403) end with status 0
ExitStatus(e) == IF e = "SystemExit" THEN 1 ELSE 0

\* lines 409-426 and cleanup_resources (105-125, run by atexit): both passes
\* terminate the child processes that are still alive
TerminateChildren(s) == IF s = "open" THEN "closed" ELSE s

ProcessExit ==
    /\ pc = "main_done"
    /\ exit_code' = ExitStatus(exc)
    /\ pc' = "exited"
    /\ session' = TerminateChildren(TerminateChildren(session))
    /\ releases' = releases + (IF session = "open" THEN 1 ELSE 0)
    /\ UNCHANGED <<iteration, iteration_response, lines, idx,
                   function_info_json, invoked, planner_calls, outcome, exc,
                   query, delayed>>
    /\ UNCHANGED toolVars

\* An operator interrupt (SIGINT) while main() is suspended in an await:
\* the planner call (307), call_tool (342) or the sleep (358).  The pending
\* await is cancelled; CancelledError is no Exception, so the handlers of
\* lines 360, 377, 387 and 391 let it through, the async with blocks are
\* left, and asyncio.run raises KeyboardInterrupt (caught at line 403).
Interrupt ==
    /\ pc \in {"planning", "calling", "sleep"}
    /\ pc' = "main_done"
    /\ outcome' = "interrupted"
    /\ exc' = "KeyboardInterrupt"
    /\ session' = AsyncWithExit(session)
    /\ releases' = releases + Released(session)
    /\ UNCHANGED <<iteration, iteration_response, lines, idx,
                   function_info_json, invoked, planner_calls, exit_code,
                   query, delayed>>
    /\ UNCHANGED toolVars

Next ==
    \/ ModuleStartup
    \/ FindScript
    \/ Connect
    \/ LoopTest
    \/ PlannerFails
    \/ PlannerResponds
    \/ SkipLine
    \/ FunctionCallLine
    \/ ToolReturns
    \/ ToolFails
    \/ Sleep
    \/ FinalAnswer
    \/ EndRound
    \/ AfterLoop
    \/ Interrupt
    \/ ProcessExit

Spec == Init /\ [][Next]_vars

----------------------------------------------------------------------------
\* The tool server (paint_tools.py): the PaintTools and GmailTools objects of
\* lines 558-559 serving tool calls one at a time.

\* Bound of the tool inputs
MaxStrLen == 2       \* characters of an ascii_exp_sum input

\* math.exp raises OverflowError from this argument on (line 403)
ExpOverflowAt == 710

CodePoints == {65, 709, 710}
Strings == UNION {[1..k -> CodePoints] : k \in 0..MaxStrLen}
Rects ==
    {[x1 |-> 600, y1 |-> 354, x2 |-> 1000, y2 |-> 454, set |-> TRUE],
     [x1 |-> 476, y1 |-> 274, x2 |-> 676, y2 |-> 374, set |-> TRUE]}
Texts == {"6.311e28"}
Filenames == {"ascii_result.png"}
AttachmentPaths == {"", "ascii_result.png", "missing.png"}

ToolInit ==
    /\ AgentInit
    /\ HAS_WINDOWS_MODULES \in BOOLEAN
    /\ HAS_GMAIL_CREDENTIALS \in BOOLEAN
    /\ paint_app = "None"
    /\ last_rect = NoRect
    /\ files \in SUBSET Filenames
    /\ last_call = NoCall
    /\ open_succeeded = FALSE

\* variant: the flag is taken the wrong way round
PaintSimulationMode_Inverted == HAS_WINDOWS_MODULES

\* line 100: self.simulation_mode = not HAS_WINDOWS_MODULES
PaintSimulationMode == ~HAS_WINDOWS_MODULES

\* line 428: self.simulation_mode = not HAS_GMAIL_CREDENTIALS
GmailSimulationMode == ~HAS_GMAIL_CREDENTIALS

\* lines 149, 234, 285: if not self.paint_app
PaintNotOpen == paint_app = "None"

NotOpenResult == Result(FALSE, "Paint is not open. Please call open_paint first.")

Call(tool) == [NoCall EXCEPT !.tool = tool]

\* lines 107-139
OpenPaint ==
    /\ IF PaintSimulationMode
       THEN /\ last_call' = [Call("open_paint") EXCEPT
                  !.result = Result(TRUE, "Paint opened successfully")]
            /\ UNCHANGED <<paint_app, open_succeeded>>
       ELSE \E step \in {"start_raises", "window_raises", "opened"} :
              \/ /\ step = "start_raises"
                 /\ last_call' = [Call("open_paint") EXCEPT
                       !.result = Result(FALSE, "Error opening Paint")]
                 /\ UNCHANGED <<paint_app, open_succeeded>>
              \/ /\ step = "window_raises"
                 /\ paint_app' = "app"
                 /\ UNCHANGED open_succeeded
                 /\ last_call' = [Call("open_paint") EXCEPT
                       !.result = Result(FALSE, "Error opening Paint"),
                       !.gui = TRUE]
              \/ /\ step = "opened"
                 /\ paint_app' = "app"
                 /\ open_succeeded' = TRUE
                 /\ last_call' = [Call("open_paint") EXCEPT
                       !.result = Result(FALSE,
                          "Paint opened successfully and maximized"),
                       !.gui = TRUE]
    /\ UNCHANGED <<HAS_WINDOWS_MODULES, HAS_GMAIL_CREDENTIALS, last_rect,
                   files>>
    /\ UNCHANGED agentVars

\* lines 141-225
DrawRectangle ==
    /\ \E rect \in Rects :
          LET call == [Call("draw_rectangle") EXCEPT !.rect = rect] IN
          IF PaintSimulationMode
          THEN /\ last_call' = [call EXCEPT
                     !.result = Result(TRUE, "Rectangle drawn")]
               /\ UNCHANGED last_rect
          ELSE IF PaintNotOpen
          THEN /\ last_call' = [call EXCEPT !.result = NotOpenResult]
               /\ UNCHANGED last_rect
          ELSE \E step \in {"focus_raises", "draw_raises", "drawn"} :
                 \/ /\ step = "focus_raises"
                    /\ last_call' = [call EXCEPT
                          !.result = Result(FALSE, "Error drawing rectangle")]
                    /\ UNCHANGED last_rect
                 \/ /\ step = "draw_raises"
                    /\ last_call' = [call EXCEPT
                          !.result = Result(FALSE, "Error drawing rectangle"),
                          !.gui = TRUE]
                    /\ UNCHANGED last_rect
                 \/ /\ step = "drawn"
                    /\ last_rect' = rect
                    /\ last_call' = [call EXCEPT
                          !.result = Result(FALSE, "Rectangle drawn"),
                          !.gui = TRUE]
    /\ UNCHANGED <<HAS_WINDOWS_MODULES, HAS_GMAIL_CREDENTIALS, paint_app,
                   files>>
    /\ UNCHANGED <<open_succeeded, agentVars>>

\* lines 227-275: the save dialog is driven blindly by SendKeys, so the file
\* may or may not be there afterwards
SavePaint ==
    /\ \E filename \in Filenames :
          LET call == [Call("save_paint_file") EXCEPT !.filename = filename] IN
          IF PaintSimulationMode
          THEN /\ last_call' = [call EXCEPT
                     !.result = Result(TRUE, "File saved")]
               /\ UNCHANGED files
          ELSE IF PaintNotOpen
          THEN /\ last_call' = [call EXCEPT !.result = NotOpenResult]
               /\ UNCHANGED files
          ELSE \E step \in {"focus_raises", "keys_raise", "saved"} :
                 \/ /\ step = "focus_raises"
                    /\ last_call' = [call EXCEPT
                          !.result = Result(FALSE, "Error saving file")]
                    /\ UNCHANGED files
                 \/ /\ step = "keys_raise"
                    /\ last_call' = [call EXCEPT
                          !.result = Result(FALSE, "Error saving file"),
                          !.gui = TRUE]
                    /\ UNCHANGED files
                 \/ /\ step = "saved"
                    /\ files' \in {files, files \cup {filename}}
                    /\ last_call' = [call EXCEPT
                          !.result = Result(FALSE, "File saved"),
                          !.gui = TRUE]
    /\ UNCHANGED <<HAS_WINDOWS_MODULES, HAS_GMAIL_CREDENTIALS, paint_app,
                   last_rect>>
    /\ UNCHANGED <<open_succeeded, agentVars>>

\* lines 277-391
AddTextInPaint ==
    /\ \E text \in Texts :
          LET call == [Call("add_text_in_paint") EXCEPT !.text = text] IN
          IF PaintSimulationMode
          THEN last_call' = [call EXCEPT
                  !.result = Result(TRUE, "Text added to Paint")]
          ELSE IF PaintNotOpen
          THEN last_call' = [call EXCEPT !.result = NotOpenResult]
          ELSE \E step \in {"focus_raises", "click_raises", "added"} :
                 \/ /\ step = "focus_raises"
                    /\ last_call' = [call EXCEPT
                          !.result = Result(FALSE, "Error adding text")]
                 \/ /\ step = "click_raises"
                    /\ last_call' = [call EXCEPT
                          !.result = Result(FALSE, "Error adding text"),
                          !.gui = TRUE]
                 \/ /\ step = "added"
                    /\ last_call' = [call EXCEPT
                          !.result = Result(FALSE, "Text added to Paint"),
                          !.gui = TRUE]
    /\ UNCHANGED <<HAS_WINDOWS_MODULES, HAS_GMAIL_CREDENTIALS, paint_app,
                   last_rect, files>>
    /\ UNCHANGED <<open_succeeded, agentVars>>

\* variant: the emptiness test is left out
EmptyInput_Unchecked(input_string) == FALSE

\* line 396: if not input_string
EmptyInput(input_string) == input_string = <<>>

\* variant: the exponential never leaves the floating-point range
ExpRaises_Never(input_string) == FALSE

\* line 403: math.exp(val) raises OverflowError for some character
ExpRaises(input_string) ==
    \E i \in DOMAIN input_string : input_string[i] >= ExpOverflowAt

\* lines 393-421: the result text and, for a sum, the code points summed
calculate_ascii_exp_sum(input_string) ==
    IF EmptyInput(input_string)
    THEN [result |-> Result(FALSE, "Input string is empty"), value |-> <<>>]
    ELSE IF ExpRaises(input_string)
    THEN [result |-> Result(FALSE, "Error calculating ASCII exponential sum"),
          value |-> <<>>]
    ELSE [result |-> Result(FALSE, "Sum of exponentials of ASCII values"),
          value |-> input_string]

\* lines 614-625
AsciiExpSum ==
    /\ \E input_string \in Strings :
          LET r == calculate_ascii_exp_sum(input_string) IN
          last_call' = [Call("ascii_exp_sum") EXCEPT
             !.input_string = input_string,
             !.result = r.result,
             !.value = r.value]
    /\ UNCHANGED <<HAS_WINDOWS_MODULES, HAS_GMAIL_CREDENTIALS, paint_app,
                   last_rect, files>>
    /\ UNCHANGED <<open_succeeded, agentVars>>

\* variant: the existence test is left out
AttachmentMissing_Unchecked(attachment_path, existing) == FALSE

\* lines 452-453: if attachment_path: if not os.path.exists(attachment_path)
AttachmentMissing(attachment_path, existing) ==
    attachment_path # "" /\ attachment_path \notin existing

\* lines 431-505 (tool of lines 627-638)
SendEmail ==
    /\ \E attachment_path \in AttachmentPaths :
          LET call == [Call("send_email_with_attachment") EXCEPT
                          !.attachment_path = attachment_path] IN
          IF GmailSimulationMode
          THEN last_call' = [call EXCEPT !.result = Result(TRUE, "Email sent")]
          ELSE IF AttachmentMissing(attachment_path, files)
          THEN last_call' = [call EXCEPT
                  !.result = Result(FALSE, "Attachment file not found")]
          ELSE \E step \in {"read_raises", "smtp_raises", "sent"} :
                 \/ /\ step = "read_raises"
                    /\ attachment_path # ""
                    /\ last_call' = [call EXCEPT
                          !.result = Result(FALSE,
                             "Error reading attachment file")]
                 \/ /\ step = "smtp_raises"
                    /\ last_call' = [call EXCEPT
                          !.result = Result(FALSE, "Error sending email")]
                 \/ /\ step = "sent"
                    /\ last_call' = [call EXCEPT
                          !.result = Result(FALSE, "Email sent"),
                          !.sent = TRUE]
    /\ UNCHANGED <<HAS_WINDOWS_MODULES, HAS_GMAIL_CREDENTIALS, paint_app,
                   last_rect, files>>
    /\ UNCHANGED <<open_succeeded, agentVars>>

\* lines 507-529 (tool of lines 640-651)
CheckFileExists ==
    /\ \E file_path \in AttachmentPaths \ {""} :
          last_call' = [Call("check_file_exists") EXCEPT
             !.file_path = file_path,
             !.result = IF file_path \in files
                        THEN Result(FALSE, "File exists")
                        ELSE Result(FALSE, "File does not exist")]
    /\ UNCHANGED <<HAS_WINDOWS_MODULES, HAS_GMAIL_CREDENTIALS, paint_app,
                   last_rect, files>>
    /\ UNCHANGED <<open_succeeded, agentVars>>

ToolNext ==
    \/ OpenPaint
    \/ DrawRectangle
    \/ SavePaint
    \/ AddTextInPaint
    \/ AsciiExpSum
    \/ SendEmail
    \/ CheckFileExists

ToolSpec == ToolInit /\ [][ToolNext]_vars

TypeOK ==
    /\ pc \in {"module", "find_script", "connect", "loop", "planning", "lines",
               "calling", "sleep", "after_loop", "main_done", "exited"}
    /\ iteration \in Nat
    /\ planner_calls \in Nat
    /\ idx \in 0..(Len(lines) + 1)
    /\ exit_code \in {NoExit, 0, 1}

----------------------------------------------------------------------------
\* Vocabulary of the properties

\* a FUNCTION_CALL line whose payload json.loads accepts and that has both keys
WellFormed(line) ==
    /\ StartsWith(line, "FUNCTION_CALL:")
    /\ line.valid
    /\ {"name", "args"} \subseteq line.keys

Malformed(line) == StartsWith(line, "FUNCTION_CALL:") /\ ~WellFormed(line)

Recognized(line) ==
    StartsWith(line, "FUNCTION_CALL:") \/ StartsWith(line, "FINAL_ANSWER:")

AtLine == pc = "lines" /\ idx <= Len(lines)

MainEnded == pc \in {"main_done", "exited"}

Dispatched(i) == \E j \in DOMAIN invoked : invoked[j].line = i

----------------------------------------------------------------------------
\* C1: when a response holds FUNCTION_CALL lines and a FINAL_ANSWER line, in
\* any order, every well-formed FUNCTION_CALL line naming a registered tool
\* has been dispatched by the time the loop ends on the FINAL_ANSWER line,
\* also a FUNCTION_CALL line standing after the FINAL_ANSWER line.
C1_AllCallsBeforeFinalAnswer ==
    outcome = "final_answer" =>
        \A i \in DOMAIN lines :
            (WellFormed(lines[i]) /\ lines[i].name \in tool_names)
                => Dispatched(i)

\* C2: a FUNCTION_CALL line that is not valid JSON, or lacks name or args, is
\* skipped without effect: no tool is invoked for it and the loop does not
\* end on it.
C2_MalformedLineSkipped ==
    /\ outcome # "round_error"
    /\ \A j \in DOMAIN invoked : ~Malformed(lines[invoked[j].line])

\* C3: in every round the tool calls made are at most the well-formed
\* FUNCTION_CALL lines of the response, each call carrying the name and the
\* arguments of its own line, and no line is dispatched twice.
C3_AtMostOncePerLine ==
    /\ Len(invoked) <= Cardinality({i \in DOMAIN lines : WellFormed(lines[i])})
    /\ \A j \in DOMAIN invoked :
          /\ WellFormed(lines[invoked[j].line])
          /\ invoked[j].name = lines[invoked[j].line].name
          /\ invoked[j].args = lines[invoked[j].line].args
    /\ \A j, k \in DOMAIN invoked :
          invoked[j].line = invoked[k].line => j = k

\* C4: the round counter starts at 0, grows by exactly one at the end of each
\* completed round and at no other step, and never exceeds max_iterations;
\* main() ends as 'maximum iterations reached' exactly when the counter is at
\* max_iterations, which never happens after a FINAL_ANSWER line.
RoundCompleted == pc = "lines" /\ idx > Len(lines)

C4_RoundCounter ==
    /\ iteration = 0
    /\ [](/\ iteration \in 0..max_iterations
          /\ (outcome = "max_iterations") => MainEnded
          /\ MainEnded =>
                ((outcome = "max_iterations") <=> (iteration = max_iterations))
          /\ (outcome = "final_answer") => iteration < max_iterations)
    /\ [][IF RoundCompleted
          THEN iteration' = iteration + 1
          ELSE iteration' = iteration]_vars

C4_Witness ==
    /\ pc = "exited"
    /\ outcome = "max_iterations"
    /\ iteration = max_iterations
    /\ planner_calls = max_iterations

\* C5: when a planner call times out or raises, the loop is left at once: no
\* tool is invoked in that round, no further planner call is made, and the
\* history stays what the earlier rounds left (empty when it is round 1).
C5_PlannerFailureEndsLoop ==
    /\ []((outcome = "planner_error" /\ iteration = 0)
            => iteration_response = <<>>)
    /\ []((outcome = "planner_error")
            => \A k \in DOMAIN iteration_response :
                  iteration_response[k].iteration <= iteration)
    /\ [][(outcome' = "planner_error") =>
            /\ iteration_response' = iteration_response
            /\ invoked' = <<>>
            /\ planner_calls' = iteration + 1
            /\ iteration' = iteration
            /\ pc' \in {"after_loop", "main_done", "exited"}]_vars

C5_Witness ==
    /\ pc = "exited"
    /\ outcome = "planner_error"
    /\ iteration > 0
    /\ Len(iteration_response) > 0

\* C6: when the loop ended because a planner call timed out or failed, the
\* process exit code is non-zero.
C6_PlannerFailureExitsNonZero ==
    (pc = "exited" /\ outcome = "planner_error") => exit_code # 0

\* C7: the process exits non-zero when the API key is missing, when the
\* tool-server script is not found, or when the tool-server connection or
\* session cannot be set up; it exits zero after a FINAL_ANSWER line or at
\* the round limit.
C7_ExitCodes ==
    pc = "exited" =>
        /\ outcome \in {"no_api_key", "no_script", "connection_error"}
              => exit_code # 0
        /\ outcome \in {"final_answer", "max_iterations"} => exit_code = 0

\* C8: a well-formed FUNCTION_CALL line naming an unregistered tool invokes
\* no tool, leaves a record for that line in the history, and does not stop
\* the loop.
C8_UnregisteredToolRecorded ==
    pc \in {"lines", "calling", "sleep"} =>
        \A i \in 1..(idx - 1) :
            (WellFormed(lines[i]) /\ lines[i].name \notin tool_names) =>
                /\ ~Dispatched(i)
                /\ \E k \in DOMAIN iteration_response :
                      /\ iteration_response[k].iteration = iteration + 1
                      /\ iteration_response[k].func_name = lines[i].name

\* C9: a failure raised while a tool is invoked or its result is read (an
\* operator interrupt is no such failure) adds
\* exactly one failure record for that invocation and stays inside the loop:
\* the for loop moves to the next line of the same response, main() does not
\* end, and the round goes on to its end.
C9_ToolFailureRecorded ==
    [][(pc = "calling" /\ outcome' # "interrupted") =>
          \E st \in {"returned", "failed"} :
             /\ iteration_response' = Append(iteration_response,
                   [iteration |-> iteration + 1,
                    func_name |-> invoked[Len(invoked)].name,
                    status |-> st])
             /\ (st = "failed") =>
                   /\ pc' = "lines"
                   /\ idx' = idx + 1
                   /\ lines' = lines
                   /\ invoked' = invoked
                   /\ outcome' = "running"
                   /\ iteration' = iteration]_vars

\* a failed call, then a later line of the same response dispatched, then a
\* further round planned
C9_Witness ==
    /\ Len(iteration_response) = 2
    /\ iteration_response[1].status = "failed"
    /\ iteration_response[2].iteration = iteration_response[1].iteration
    /\ planner_calls > iteration_response[1].iteration
    /\ pc = "lines"

\* C10: a response with no FUNCTION_CALL and no FINAL_ANSWER line appends no
\* record, invokes no tool, and ends with the round counter advanced by one.
Narrative(r) == \A i \in DOMAIN r : ~Recognized(r[i])

C10_NarrativeOnlyRound ==
    /\ []((pc = "lines" /\ Narrative(lines)) =>
            /\ invoked = <<>>
            /\ \A k \in DOMAIN iteration_response :
                  iteration_response[k].iteration <= iteration)
    /\ [][(pc = "lines" /\ Narrative(lines)) =>
            /\ iteration_response' = iteration_response
            /\ invoked' = <<>>
            /\ IF idx <= Len(lines)
               THEN pc' = "lines" /\ idx' = idx + 1 /\ iteration' = iteration
               ELSE pc' = "loop" /\ iteration' = iteration + 1]_vars

C10_Witness ==
    /\ pc = "lines"
    /\ Len(lines) = 2
    /\ Narrative(lines)
    /\ idx > Len(lines)
    /\ Len(iteration_response) > 0

\* records appended in the round in progress
RoundRecords ==
    SelectSeq(iteration_response, LAMBDA rec : rec.iteration = iteration + 1)

InRound == pc \in {"lines", "calling", "sleep"}

\* C11: for the response made of one well-formed draw_rectangle line and a
\* FINAL_ANSWER line, exactly one record is appended, main() then returns on
\* the FINAL_ANSWER line (the line it prints), and no further planner call
\* is made.
DrawThenFinal ==
    <<CallLine("draw_rectangle", "600,354,1000,454"), FinalAnswerLine>>

C11_CallThenFinalAnswer ==
    /\ []((lines = DrawThenFinal /\ MainEnded /\ outcome # "interrupted") =>
            /\ outcome = "final_answer"
            /\ Len(invoked) = 1
            /\ Len(RoundRecords) = 1
            /\ planner_calls = iteration + 1)
    /\ [][(lines = DrawThenFinal /\ pc = "lines" /\ idx = 2) =>
            /\ Len(RoundRecords) = 1
            /\ outcome' = "final_answer"
            /\ pc' = "main_done"
            /\ lines'[idx'] = FinalAnswerLine
            /\ iteration_response' = iteration_response]_vars
    /\ [][(outcome = "final_answer") =>
            /\ planner_calls' = planner_calls
            /\ iteration_response' = iteration_response]_vars

C11_Witness ==
    /\ pc = "exited"
    /\ outcome = "final_answer"
    /\ lines = DrawThenFinal
    /\ planner_calls = 1
    /\ Len(iteration_response) = 1

\* C12: at most max_iterations planner calls are made, and once the loop
\* was entered main() ends by FINAL_ANSWER, by a planner failure or at the
\* round limit (an operator interrupt aside).
C12_LoopEndsThreeWays ==
    /\ planner_calls <= max_iterations
    /\ (MainEnded /\ planner_calls > 0) =>
          outcome \in {"final_answer", "planner_error", "max_iterations",
                       "interrupted"}

\* C13: the history is append-only and chronological: every step keeps the
\* earlier records as a prefix and adds at most one; records stand in round
\* order, and within a round in the order of their lines; a call starts only
\* when every earlier call of the round has its record.
IsPrefix(a, b) == Len(a) <= Len(b) /\ SubSeq(b, 1, Len(a)) = a

C13_HistoryAppendOnly ==
    /\ [][/\ IsPrefix(iteration_response, iteration_response')
          /\ Len(iteration_response') <= Len(iteration_response) + 1]_vars
    /\ [](\A k \in 1..(Len(iteration_response) - 1) :
            iteration_response[k].iteration
               <= iteration_response[k + 1].iteration)
    /\ [](\A j, k \in DOMAIN invoked :
            j < k => invoked[j].line < invoked[k].line)
    /\ [](InRound =>
            /\ Len(RoundRecords)
                  = Len(invoked) - (IF pc = "calling" THEN 1 ELSE 0)
            /\ \A j \in DOMAIN RoundRecords :
                  RoundRecords[j].func_name = invoked[j].name)
    /\ [][(Len(invoked') > Len(invoked)) =>
            /\ pc # "calling"
            /\ Len(RoundRecords) = Len(invoked)]_vars

C13_Witness ==
    /\ pc = "sleep"
    /\ Len(invoked) = 2
    /\ Len(iteration_response) = 2
    /\ iteration_response[1].status = "failed"
    /\ iteration_response[2].status = "returned"

\* C14: an operator interrupt stops the loop only between invocations (every
\* invocation that started has its record when the loop stops), and the
\* session is closed before the process exits.
C14_InterruptBetweenInvocations ==
    (outcome = "interrupted") =>
        /\ Len(RoundRecords) = Len(invoked)
        /\ (pc = "exited") => session = "closed"

\* C15: once opened, the tool-server session is released exactly once, on
\* every way out of the loop; it stays open while the loop runs and is not
\* released again afterwards.
C15_SessionReleasedOnce ==
    /\ [](releases <= 1)
    /\ [](pc \in {"loop", "planning", "lines", "calling", "sleep",
                  "after_loop"} => (session = "open" /\ releases = 0))
    /\ []((MainEnded /\ session # "none") =>
            (session = "closed" /\ releases = 1))
    /\ [][(session = "closed") =>
            (session' = "closed" /\ releases' = releases)]_vars

C15_Witness ==
    /\ pc = "exited"
    /\ outcome = "interrupted"
    /\ Len(invoked) = 1
    /\ session = "closed"
    /\ releases = 1

\* C19: from round 2 on, the planner request is the fixed system prompt plus
\* the records of the history so far, in order, and nothing else of the
\* planner's earlier output.
C19_RequestIsPreambleAndHistory ==
    (pc = "planning" /\ iteration >= 1) =>
        /\ Prompt.system_prompt = "system_prompt"
        /\ Prompt.query.records = iteration_response
        /\ Prompt.query.narrative = <<>>

C19_Witness ==
    /\ pc = "planning"
    /\ iteration >= 2
    /\ Len(iteration_response) = 2
    /\ iteration_response[1].iteration < iteration_response[2].iteration
    /\ iteration_response[2].iteration < iteration

\* C20: between any two consecutive tool invocations the delay of line 358
\* occurs, whether the earlier one returned or failed.
C20_DelayBetweenCalls ==
    [][(pc # "calling" /\ pc' = "calling") => delayed]_vars

----------------------------------------------------------------------------
\* Properties of the tool server (specification ToolSpec)

PaintBackendTools ==
    {"open_paint", "draw_rectangle", "add_text_in_paint", "save_paint_file"}

\* C16: when the Windows automation modules (for the paint tools) or the
\* mail credentials (for send_email_with_attachment) are unavailable, a call
\* of a tool of that backend does nothing real, leaves paint_app and
\* last_rect as they were, and returns a result labelled as simulated.
C16_SimulatedWhenUnavailable ==
    [][/\ (last_call'.tool \in PaintBackendTools /\ ~HAS_WINDOWS_MODULES) =>
            /\ last_call'.result.simulated
            /\ ~last_call'.gui
            /\ paint_app' = paint_app
            /\ last_rect' = last_rect
            /\ files' = files
       /\ (last_call'.tool = "send_email_with_attachment"
              /\ ~HAS_GMAIL_CREDENTIALS) =>
            /\ last_call'.result.simulated
            /\ ~last_call'.sent]_vars

C16_Witness ==
    /\ ~HAS_WINDOWS_MODULES
    /\ last_call.tool = "draw_rectangle"
    /\ last_call.result = Result(TRUE, "Rectangle drawn")
    /\ paint_app = "None"
    /\ last_rect = NoRect

\* C17 as claimed: in every mode of the mail tool, a call of
\* send_email_with_attachment whose attachment path names no existing file
\* returns the failure text naming the missing attachment and sends nothing.
C17_MissingAttachmentFailsInEveryMode ==
    (last_call.tool = "send_email_with_attachment"
        /\ last_call.attachment_path # ""
        /\ last_call.attachment_path \notin files) =>
            /\ last_call.result = Result(FALSE, "Attachment file not found")
            /\ ~last_call.sent

\* C17 as amended: with mail credentials (real mode), a call whose
\* attachment path is not empty and names no existing file returns the
\* failure text naming the missing attachment and sends nothing; without
\* credentials the call returns the simulated success text and sends nothing.
C17_MissingAttachmentFailsInRealMode ==
    (last_call.tool = "send_email_with_attachment"
        /\ last_call.attachment_path # ""
        /\ last_call.attachment_path \notin files) =>
            /\ ~last_call.sent
            /\ last_call.result =
                 IF HAS_GMAIL_CREDENTIALS
                 THEN Result(FALSE, "Attachment file not found")
                 ELSE Result(TRUE, "Email sent")

C17_Witness ==
    /\ HAS_GMAIL_CREDENTIALS
    /\ last_call.tool = "send_email_with_attachment"
    /\ last_call.attachment_path = "missing.png"
    /\ last_call.result = Result(FALSE, "Attachment file not found")

\* C18 as claimed: the empty input yields the empty-input sentinel and every
\* non-empty input yields a sum result.
EmptySentinel == Result(FALSE, "Input string is empty")
SumResult == Result(FALSE, "Sum of exponentials of ASCII values")

C18_SentinelOnlyForEmpty ==
    (last_call.tool = "ascii_exp_sum") =>
        IF last_call.input_string = <<>>
        THEN last_call.result = EmptySentinel
        ELSE last_call.result = SumResult

\* C18 as amended: the empty input yields the empty-input sentinel and never
\* a sum; a non-empty input never yields the sentinel, and yields a sum
\* result exactly when all its code points are below 710 (otherwise the
\* error text).
C18_SentinelIffEmpty ==
    (last_call.tool = "ascii_exp_sum") =>
        /\ (last_call.input_string = <<>>) <=>
              (last_call.result = EmptySentinel)
        /\ (last_call.result = SumResult) <=>
              /\ last_call.input_string # <<>>
              /\ \A i \in DOMAIN last_call.input_string :
                    last_call.input_string[i] < ExpOverflowAt
        /\ (last_call.result = SumResult) =>
              last_call.value = last_call.input_string

C18_Witness ==
    /\ last_call.tool = "ascii_exp_sum"
    /\ last_call.input_string = <<>>
    /\ last_call.result = EmptySentinel

\* C21: for an input string holding a character of code point 710 or more
\* (math.exp overflows), ascii_exp_sum returns the error text that reports
\* the failure: the exception does not leave the tool (lines 417-421 turn it
\* into the returned text) and the result is never a sum.
ErrorResult == Result(FALSE, "Error calculating ASCII exponential sum")

C21_OverflowReportedAsError ==
    (/\ last_call.tool = "ascii_exp_sum"
     /\ \E i \in DOMAIN last_call.input_string :
           last_call.input_string[i] >= ExpOverflowAt) =>
        /\ last_call.result = ErrorResult
        /\ last_call.result # SumResult
        /\ last_call.value = <<>>

C21_Witness ==
    /\ last_call.tool = "ascii_exp_sum"
    /\ last_call.input_string = <<65, 710>>
    /\ last_call.result = ErrorResult

PaintEditTools == {"draw_rectangle", "add_text_in_paint", "save_paint_file"}

\* C22: in real mode, after any sequence of tool calls, draw_rectangle,
\* add_text_in_paint and save_paint_file perform a GUI action only if an
\* earlier open_paint call returned success; otherwise they return the
\* "Paint is not open" text, perform no GUI action and leave last_rect as
\* it was (never set, since only a drawn rectangle sets it).
C22_GuiOnlyAfterSuccessfulOpen ==
    (HAS_WINDOWS_MODULES /\ last_call.tool \in PaintEditTools) =>
        /\ last_call.gui => open_succeeded
        /\ ~open_succeeded =>
              /\ last_call.result = NotOpenResult
              /\ ~last_call.gui
              /\ last_rect = NoRect

----------------------------------------------------------------------------
\* Properties of the planner requests (specification Spec)

\* C23: every planner request, in every round, contains the original task
\* (the user's input string and the recipient address), also in a round
\* whose earlier rounds appended no records.
C23_RequestContainsTask ==
    (pc = "planning") => Prompt.query.task = InitialQuery.task

====
